---- MODULE Spec2Model ----
(***************************************************************************)
(* Model of ArxivClient (src/src/services/arxiv/client.py): the rate       *)
(* limiter of the fetch calls, the Atom feed parser, and the PDF download   *)
(* with its cache check and retry loop.                                     *)
(*                                                                          *)
(* One caller uses one client instance and awaits each call before making   *)
(* the next.  Time is a discrete clock in seconds.  Synchronous code runs   *)
(* in zero time: the clock advances only while the caller is idle, asleep   *)
(* in asyncio.sleep, or awaiting the network.                               *)
(***************************************************************************)
EXTENDS Integers, Sequences, FiniteSets, TLC

(* ---------------------------- bounds ----------------------------------- *)
MaxTime == 19        \* the clock stops here
MaxCalls == 2        \* calls the caller makes
MaxIdle == 3         \* seconds the caller idles between two calls
MaxLag == 1          \* seconds a sleep oversleeps, or a response takes
MaxEntries == 3      \* entries of a document given to the parser
MaxApiEntries == 1   \* entries of a document the API answers with
MaxLinks == 2        \* atom:link children of an entry
MaxUpserts == 2       \* upsert calls made through one session

(* ------------------------ program constants ---------------------------- *)
rate_limit_delay == 3
max_retries == 3
BackoffUnit == 5

\* Optional[...] values that are None
NONE == -1

\* the methods class ArxivClient defines
ClientMethods ==
    { "fetch_papers", "fetch_papers_with_query", "fetch_paper_by_id",
      "_parse_response", "_get_arxiv_id", "_get_text", "_get_authors",
      "_get_categories", "_get_pdf_url", "_parse_single_entry",
      "_get_pdf_path", "_download_with_retry", "download_pdf" }

(* ------------------------------ text ----------------------------------- *)
\* a str is a sequence of one-character strings
SetMax(S) == CHOOSE m \in S : \A x \in S : x <= m

\* text.split("/")[-1]
LastSegment(text) ==
    LET slashes == { i \in 1..Len(text) : text[i] = "/" }
    IN  IF slashes = {} THEN text
        ELSE SubSeq(text, SetMax(slashes) + 1, Len(text))

\* text.replace("/", "_")
ReplaceSlash(text) ==
    [ i \in 1..Len(text) |-> IF text[i] = "/" THEN "_" ELSE text[i] ]

\* text.startswith(prefix)
StartsWith(text, prefix) ==
    /\ Len(text) >= Len(prefix)
    /\ SubSeq(text, 1, Len(prefix)) = prefix

\* text.replace(old, new): every occurrence, left to right
RECURSIVE Replace(_, _, _)
Replace(text, old, new) ==
    IF text = << >> THEN << >>
    ELSE IF StartsWith(text, old)
    THEN new \o Replace(SubSeq(text, Len(old) + 1, Len(text)), old, new)
    ELSE << Head(text) >> \o Replace(Tail(text), old, new)

(* ------------------------------ feed ----------------------------------- *)
SeqsUpTo(S, n) == UNION { [ 1..k -> S ] : k \in 0..n }

\* the atom:id child of an entry: absent (elem FALSE), present with text None
\* (hastext FALSE), or present with its text
IdTexts == { <<"h", "/", "1">>, <<"h", "/">>, <<"2">> }
IdElems ==
    { [ elem |-> FALSE, hastext |-> FALSE, text |-> << >> ],
      [ elem |-> TRUE, hastext |-> FALSE, text |-> << >> ] }
    \cup [ elem : {TRUE}, hastext : {TRUE}, text : IdTexts ]

\* "http://arxiv.org/" and "https://arxiv.org/"
Host == << ":", "/", "/", "a", "r", "x", "i", "v", ".", "o", "r", "g", "/" >>
HttpArxiv == << "h", "t", "t", "p" >> \o Host
HttpsArxiv == << "h", "t", "t", "p", "s" >> \o Host

\* the atom:link children of an entry: the type attribute, and the href
\* attribute if there is one
Hrefs ==
    { HttpArxiv \o << "p" >>,
      HttpsArxiv \o << "p" >>,
      << "x", "?" >> \o HttpArxiv,
      HttpArxiv \o << "p", "?" >> \o HttpArxiv }
Links ==
    [ type : { "application/pdf", "text/html" }, hashref : {TRUE}, href : Hrefs ]
    \cup [ type : { "application/pdf", "text/html" }, hashref : {FALSE}, href : { << >> } ]

\* an entry: its id child, its links, and whether building the record from
\* it raises inside _parse_single_entry's try block
Entries == [ id : IdElems, links : SeqsUpTo(Links, MaxLinks), raises : BOOLEAN ]
\* the entries of the documents parsed as a batch carry no links
FeedEntries == [ id : IdElems, links : { << >> }, raises : BOOLEAN ]
ApiEntries == { e \in FeedEntries : ~e.raises }

\* a response body: well-formed XML with its entry children, or a document
\* ET.fromstring rejects (entries are what precedes the point of damage)
Feeds == [ wellformed : BOOLEAN, entries : SeqsUpTo(FeedEntries, MaxEntries) ]
ApiFeeds == [ wellformed : BOOLEAN, entries : SeqsUpTo(ApiEntries, MaxApiEntries) ]

\* _get_arxiv_id: None, or the last path segment of the id text
GetArxivId(entry) ==
    IF ~entry.id.elem \/ ~entry.id.hastext
    THEN [ none |-> TRUE, text |-> << >> ]
    ELSE [ none |-> FALSE, text |-> LastSegment(entry.id.text) ]

\* the links whose type attribute is application/pdf
PdfLinks(entry) == SelectSeq(entry.links, LAMBDA l : l.type = "application/pdf")

\* _get_pdf_url: the href of the first application/pdf link, "" without one
GetPdfUrl(entry) ==
    IF PdfLinks(entry) = << >> THEN << >>
    ELSE LET link == Head(PdfLinks(entry))
             url == IF link.hashref THEN link.href ELSE << >>
         IN  IF StartsWith(url, HttpArxiv)
             THEN Replace(url, HttpArxiv, HttpsArxiv)
             ELSE url

\* _parse_single_entry as an Optional: << >> for None, <<paper>> otherwise
ParseSingleEntry(entry) ==
    LET arxiv_id == GetArxivId(entry)
    IN  IF arxiv_id.none \/ arxiv_id.text = << >>
        THEN << >>
        ELSE IF entry.raises
        THEN << >>
        ELSE << [ arxiv_id |-> arxiv_id.text, pdf_url |-> GetPdfUrl(entry) ] >>

\* slip: the first entry without a record ends the batch
RECURSIVE ParseEntriesAbort(_)
ParseEntriesAbort(entries) ==
    IF entries = << >> THEN << >>
    ELSE IF ParseSingleEntry(Head(entries)) = << >> THEN << >>
    ELSE ParseSingleEntry(Head(entries)) \o ParseEntriesAbort(Tail(entries))
\* for entry in entries: if paper: papers.append(paper)
RECURSIVE ParseEntries(_)
ParseEntries(entries) ==
    IF entries = << >> THEN << >>
    ELSE ParseSingleEntry(Head(entries)) \o ParseEntries(Tail(entries))

Return(kind, val) == [ kind |-> kind, val |-> val, exc |-> "" ]
Raise(exc) == [ kind |-> "raise", val |-> << >>, exc |-> exc ]

\* slip: a parse error is swallowed and what was read so far is returned
ParseResponseLenient(xml) == Return("list", ParseEntries(xml.entries))
\* _parse_response
ParseResponse(xml) ==
    IF ~xml.wellformed
    THEN Raise("ArxivParseError")
    ELSE Return("list", ParseEntries(xml.entries))

(* --------------------------- exceptions -------------------------------- *)
\* the classes the except clauses name, with httpx's hierarchy:
\* TimeoutException, HTTPStatusError, ConnectError, ReadError < HTTPError
HTTPErrors == { "TimeoutException", "HTTPStatusError", "ConnectError", "ReadError" }
\* slip: every exception is taken for an HTTP-level error
IsALoose(exc, class) == exc = class \/ class \in { "Exception", "HTTPError" }
IsA(exc, class) ==
    \/ exc = class
    \/ class = "Exception"
    \/ class = "HTTPError" /\ exc \in HTTPErrors

(* ------------------------------ state ---------------------------------- *)
VARIABLES
    now,                \* time.time()
    last_request_time,  \* self._last_request_time
    files,              \* the PDF cache directory: path -> absent/partial/complete
    pc,                 \* where the caller's coroutine stands
    op,                 \* the method called last
    wake,               \* when its asyncio.sleep ends
    waited,             \* seconds spent in the current wait
    attempt,            \* _download_with_retry's loop variable
    cur,                \* download_pdf's arguments and pdf_path
    result,             \* what the last call returned or raised
    requests,           \* the last two network requests started: method, start time
    outcomes,           \* how each network request of the last call ended
    last_xml,           \* the document the last call parsed or received
    calls,              \* calls made so far
    tasks,              \* concurrent callers of fetch_papers on the one client
    session_factory,    \* PostgreSQLDataBase.session_factory is set
    table,              \* the committed rows of the papers table
    sess,               \* each session scope: position, calls on the session
    upserted            \* arxiv_id -> title of the most recent upsert call

vars == << now, last_request_time, files, pc, op, wake, waited, attempt, cur,
           result, requests, outcomes, last_xml, calls,
           tasks, session_factory, table, sess, upserted >>

\* tasks sharing the client
Tasks == { 1, 2 }
NoTask == [ pc |-> "idle", seen |-> NONE, slept |-> FALSE, sleep_time |-> 0,
            wake |-> 0, lag |-> 0, calls |-> 0 ]

\* PaperCreate: the key and one more field
ArxivIds == { "2401.00001", "2401.00002" }
Titles == { "t1", "t2" }
PaperCreates == [ arxiv_id : ArxivIds, title : Titles ]
Sessions == { 1, 2 }
NoSession == [ pc |-> "none", events |-> << >>, paper |-> << >>, existing |-> << >>,
               exc |-> "", raised |-> "", upserts |-> 0 ]

FetchOps == { "fetch_papers", "fetch_papers_with_query" }

\* ArxivPaper arguments of download_pdf (arxiv_id and pdf_url)
PaperIds == { <<"c", "/", "1">> }
PdfUrls == { << >>, <<"u">> }
Papers == [ arxiv_id : PaperIds, pdf_url : PdfUrls ]

\* _get_pdf_path
GetPdfPath(arxiv_id) == ReplaceSlash(arxiv_id) \o <<".", "p", "d", "f">>
Paths == { GetPdfPath(id) : id \in PaperIds }

\* Path.exists()
Exists(path) == files[path] # "absent"

NoCall == [ kind |-> "pending", val |-> << >>, exc |-> "" ]
NoPaper == [ arxiv_id |-> << >>, pdf_url |-> << >> ]
NoCur == [ paper |-> NoPaper, path |-> << >>, force |-> FALSE ]
NoXml == [ wellformed |-> TRUE, entries |-> << >> ]

Init ==
    /\ now = 0
    /\ last_request_time = NONE
    /\ files = [ p \in Paths |-> "absent" ]
    /\ pc = "idle"
    /\ op = ""
    /\ wake = 0
    /\ waited = 0
    /\ attempt = 0
    /\ cur = NoCur
    /\ result = NoCall
    /\ requests = << >>
    /\ outcomes = << >>
    /\ last_xml = NoXml
    /\ calls = 0
    /\ tasks = [ t \in Tasks |-> NoTask ]
    /\ session_factory = FALSE
    /\ table = { }
    /\ sess = [ s \in Sessions |-> NoSession ]
    /\ upserted = [ a \in ArxivIds |-> << >> ]

\* the entry of every method: a new call by the idle caller
Enter(o) ==
    /\ pc = "idle"
    /\ calls < MaxCalls
    /\ calls' = calls + 1
    /\ op' = o
    /\ outcomes' = << >>
    /\ waited' = 0
    /\ attempt' = 0

\* the call is over
Finish(r) ==
    /\ pc' = "idle"
    /\ result' = r

\* client.get(url) / client.stream("GET", url) starts
Started(o) ==
    LET n == Len(requests)
        kept == IF n = 0 THEN << >> ELSE << requests[n] >>
    IN  kept \o << [ op |-> o, t |-> now ] >>

(* --------------------- fetch_papers(_with_query) ----------------------- *)
\* if self._last_request_time is not None and time_since_last < delay
NeedsSleep(t, last) == last # NONE /\ t - last < rate_limit_delay
\* slip: sleeps for the time already elapsed, not for the remainder
SleepTimeElapsed(t, last) == t - last
\* sleep_time = self.rate_limit_delay - time_since_last
SleepTime(t, last) == rate_limit_delay - (t - last)

\* self._last_request_time = time.time(); client.get(url)
FetchSend(o) ==
    /\ last_request_time' = now
    /\ requests' = Started(o)
    /\ pc' = "f_wait"
    /\ UNCHANGED wake

CallFetch(o) ==
    /\ Enter(o)
    /\ result' = NoCall
    /\ last_xml' = NoXml
    /\ cur' = NoCur
    /\ IF NeedsSleep(now, last_request_time)
       THEN /\ pc' = "f_sleep"
            /\ wake' = now + SleepTime(now, last_request_time)
            /\ UNCHANGED << last_request_time, requests >>
       ELSE FetchSend(o)
    /\ UNCHANGED << now, files >>

\* asyncio.sleep(sleep_time) is over
FetchWake ==
    /\ pc = "f_sleep"
    /\ now >= wake
    /\ waited' = 0
    /\ FetchSend(op)
    /\ UNCHANGED << now, files, op, attempt, cur, result, outcomes, last_xml, calls >>

\* the try block after the request: raise_for_status, then the parser call
FetchTry(out, xml, parser) ==
    IF out # "ok" THEN Raise(out)
    ELSE IF parser \in ClientMethods THEN ParseResponse(xml)
    ELSE Raise("AttributeError")

\* slip: the except clauses re-raise
FetchExceptReraise(r) == r
\* the except clauses of fetch_papers and fetch_papers_with_query
FetchExcept(r) ==
    IF r.kind # "raise" THEN r
    ELSE IF IsA(r.exc, "TimeoutException") THEN Return("list", << >>)
    ELSE IF IsA(r.exc, "HTTPStatusError") THEN Return("list", << >>)
    ELSE IF IsA(r.exc, "Exception") THEN Return("list", << >>)
    ELSE r

FetchOutcomes == { "ok", "TimeoutException", "HTTPStatusError", "ConnectError" }

FetchResponse ==
    /\ pc = "f_wait"
    /\ waited' = 0
    /\ \E out \in FetchOutcomes :
       \E xml \in IF out = "ok" THEN ApiFeeds ELSE { NoXml } :
          /\ outcomes' = Append(outcomes, out)
          /\ last_xml' = xml
          /\ Finish(FetchExcept(FetchTry(out, xml, "parse_response")))
    /\ UNCHANGED << now, last_request_time, files, op, wake, attempt, cur,
                    requests, calls >>

(* ------------------------- fetch_paper_by_id --------------------------- *)
CallFetchById ==
    /\ Enter("fetch_paper_by_id")
    /\ result' = NoCall
    /\ last_xml' = NoXml
    /\ cur' = NoCur
    /\ requests' = Started("fetch_paper_by_id")
    /\ pc' = "id_wait"
    /\ UNCHANGED << now, last_request_time, files, wake >>

\* papers[0] if papers else None
FirstOrNone(r) ==
    IF r.kind # "list" THEN r
    ELSE IF r.val # << >> THEN Return("paper", << r.val[1] >>)
    ELSE Return("none", << >>)

\* the except clauses of fetch_paper_by_id
ByIdExcept(r) ==
    IF r.kind # "raise" THEN r
    ELSE IF IsA(r.exc, "TimeoutException") THEN Return("none", << >>)
    ELSE IF IsA(r.exc, "HTTPStatusError") THEN Return("none", << >>)
    ELSE IF IsA(r.exc, "Exception") THEN Return("none", << >>)
    ELSE r

ByIdResponse ==
    /\ pc = "id_wait"
    /\ waited' = 0
    /\ \E out \in FetchOutcomes :
       \E xml \in IF out = "ok" THEN ApiFeeds ELSE { NoXml } :
          /\ outcomes' = Append(outcomes, out)
          /\ last_xml' = xml
          /\ Finish(ByIdExcept(FirstOrNone(FetchTry(out, xml, "_parse_response"))))
    /\ UNCHANGED << now, last_request_time, files, op, wake, attempt, cur,
                    requests, calls >>

(* --------------------------- _parse_response --------------------------- *)
\* the parser called directly on a document
CallParseResponse ==
    /\ calls = 0
    /\ Enter("_parse_response")
    /\ cur' = NoCur
    /\ \E xml \in Feeds :
          /\ last_xml' = xml
          /\ Finish(ParseResponse(xml))
    /\ UNCHANGED << now, last_request_time, files, wake, requests >>

(* ----------------------------- download_pdf --------------------------- *)
\* slip: the force flag is read the wrong way round
CacheHitForced(path, force) == Exists(path) /\ force
\* if pdf_path.exists() and not force_download
CacheHit(path, force) == Exists(path) /\ ~force

\* for attempt in range(max_retries): the next iteration sends its request;
\* past the last one, the partial file is removed and False is returned,
\* which download_pdf turns into None
LoopHead(a) ==
    /\ attempt' = a
    /\ IF a < max_retries
       THEN /\ requests' = Started("download_pdf")
            /\ pc' = "dl_wait"
            /\ UNCHANGED << files, result >>
       ELSE /\ files' = [ files EXCEPT ![cur.path] = "absent" ]
            /\ Finish(Return("none", << >>))
            /\ UNCHANGED requests

CallDownloadPdf(paper, force) ==
    /\ Enter("download_pdf")
    /\ last_xml' = NoXml
    /\ LET path == GetPdfPath(paper.arxiv_id)
       IN  /\ cur' = [ paper |-> paper, path |-> path, force |-> force ]
           /\ IF paper.pdf_url = << >>
              THEN /\ Finish(Return("none", << >>))
                   /\ UNCHANGED wake
              ELSE IF CacheHit(path, force)
              THEN /\ Finish(Return("path", path))
                   /\ UNCHANGED wake
              ELSE \* _download_with_retry: await asyncio.sleep(self.rate_limit_delay)
                   /\ result' = NoCall
                   /\ pc' = "dl_sleep"
                   /\ wake' = now + rate_limit_delay
    /\ UNCHANGED << now, last_request_time, files, requests >>

\* the rate-limit sleep is over: the loop starts
DownloadWake ==
    /\ pc = "dl_sleep"
    /\ now >= wake
    /\ waited' = 0
    /\ LoopHead(0)
    /\ UNCHANGED << now, last_request_time, op, wake, cur, outcomes, last_xml, calls >>

\* how one attempt can end: exc, and whether open(path, "wb") had run
\* (stage "body") or not (stage "request") when it was raised
DownloadOutcomes ==
    { [ exc |-> "ok", stage |-> "body" ],
      [ exc |-> "HTTPStatusError", stage |-> "request" ] }
    \cup [ exc : { "TimeoutException", "OSError" }, stage : { "request", "body" } ]
    \cup { [ exc |-> "ConnectError", stage |-> "request" ],
           [ exc |-> "ReadError", stage |-> "body" ] }

\* the file after the attempt: open(path, "wb") truncates, the chunks fill it
Written(out, before) ==
    IF out.exc = "ok" THEN "complete"
    ELSE IF out.stage = "body" THEN "partial"
    ELSE before

\* slip: off by one, the last attempt backs off too
ShouldRetryOnLast(a) == a < max_retries
\* if attempt < max_retries - 1
ShouldRetry(a) == a < max_retries - 1
\* slip: the same wait after every failure
WaitTimeFlat(a) == BackoffUnit
\* wait_time = 5 * (attempt + 1)
WaitTime(a) == BackoffUnit * (a + 1)

\* slip: one failure kind for both except clauses
ExhaustedErrorGeneric(exc) == "PDFDownloadException"
\* what the except clause raises when the retries are used up
ExhaustedError(exc) ==
    IF IsA(exc, "TimeoutException") THEN "PDFDownloadTimeoutError"
    ELSE "PDFDownloadException"

DownloadAttemptEnd ==
    /\ pc = "dl_wait"
    /\ waited' = 0
    /\ \E out \in DownloadOutcomes :
          /\ outcomes' = Append(outcomes, out.exc)
          /\ files' = [ files EXCEPT ![cur.path] = Written(out, files[cur.path]) ]
          /\ IF out.exc = "ok"
             THEN \* return True; download_pdf returns pdf_path
                  /\ Finish(Return("path", cur.path))
                  /\ UNCHANGED wake
             ELSE IF IsA(out.exc, "HTTPError")
             THEN IF ShouldRetry(attempt)
                  THEN /\ pc' = "dl_backoff"
                       /\ wake' = now + WaitTime(attempt)
                       /\ UNCHANGED result
                  ELSE /\ Finish(Raise(ExhaustedError(out.exc)))
                       /\ UNCHANGED wake
             ELSE \* except Exception
                  /\ Finish(Raise("PDFDownloadException"))
                  /\ UNCHANGED wake
    /\ UNCHANGED << now, last_request_time, op, attempt, cur, requests, last_xml, calls >>

\* the backoff sleep is over: the next iteration
BackoffWake ==
    /\ pc = "dl_backoff"
    /\ now >= wake
    /\ waited' = 0
    /\ LoopHead(attempt + 1)
    /\ UNCHANGED << now, last_request_time, op, wake, cur, outcomes, last_xml, calls >>

(* ------------------------------- time ---------------------------------- *)
Sleeping == pc \in { "f_sleep", "dl_sleep", "dl_backoff" }
Awaiting == pc \in { "f_wait", "id_wait", "dl_wait" }

\* a second passes while the caller is asleep, awaiting the network, or idle
\* between two calls
Tick ==
    /\ now < MaxTime
    /\ \/ pc = "idle" /\ waited < MaxIdle /\ 0 < calls /\ calls < MaxCalls
       \/ Sleeping /\ now < wake + MaxLag
       \/ Awaiting /\ waited < MaxLag
    /\ now' = now + 1
    /\ waited' = waited + 1
    /\ UNCHANGED << last_request_time, files, pc, op, wake, attempt, cur, result,
                    requests, outcomes, last_xml, calls >>

\* the tasks of the concurrent callers and the database are not involved
OthersIdle == UNCHANGED << tasks, session_factory, table, sess, upserted >>

Next ==
    \/ (\E o \in FetchOps : CallFetch(o)) /\ OthersIdle
    \/ FetchWake /\ OthersIdle
    \/ FetchResponse /\ OthersIdle
    \/ CallFetchById /\ OthersIdle
    \/ ByIdResponse /\ OthersIdle
    \/ (\E paper \in Papers, force \in BOOLEAN : CallDownloadPdf(paper, force)) /\ OthersIdle
    \/ DownloadWake /\ OthersIdle
    \/ DownloadAttemptEnd /\ OthersIdle
    \/ BackoffWake /\ OthersIdle
    \/ Tick /\ OthersIdle

Spec == Init /\ [][Next]_vars

\* the parser alone, applied to every document within the bounds
ParserNext == CallParseResponse /\ OthersIdle
ParserSpec == Init /\ [][ParserNext]_vars

\* _parse_single_entry alone, applied to every entry within the bounds
CallParseSingleEntry ==
    /\ calls = 0
    /\ Enter("_parse_single_entry")
    /\ cur' = NoCur
    /\ \E entry \in Entries :
          /\ last_xml' = [ wellformed |-> TRUE, entries |-> << entry >> ]
          /\ Finish(Return("optional", ParseSingleEntry(entry)))
    /\ UNCHANGED << now, last_request_time, files, wake, requests >>

EntryNext == CallParseSingleEntry /\ OthersIdle
EntrySpec == Init /\ [][EntryNext]_vars

(* ------------- fetch_papers called by tasks sharing the client ---------- *)
\* the sequential caller and the database are not involved
CallerIdle ==
    UNCHANGED << files, pc, op, wake, attempt, cur, result, outcomes, last_xml, calls,
                 session_factory, table, sess, upserted >>

\* self._last_request_time = time.time(); client.get(url)
TaskSend(t, rec) ==
    /\ last_request_time' = now
    /\ requests' = Started("fetch_papers")
    /\ tasks' = [ tasks EXCEPT ![t] = [ rec EXCEPT !.pc = "wait", !.lag = 0 ] ]

\* a task runs fetch_papers up to its first await: the rate-limit check reads
\* self._last_request_time, then either asyncio.sleep or the request
TaskCall(t) ==
    /\ tasks[t].pc = "idle"
    /\ tasks[t].calls < MaxCalls
    /\ LET rec == [ tasks[t] EXCEPT !.calls = @ + 1, !.seen = last_request_time,
                                    !.slept = FALSE, !.sleep_time = 0 ]
       IN  IF NeedsSleep(now, last_request_time)
           THEN /\ tasks' = [ tasks EXCEPT ![t] =
                        [ rec EXCEPT !.pc = "sleep", !.slept = TRUE,
                                     !.sleep_time = SleepTime(now, last_request_time),
                                     !.wake = now + SleepTime(now, last_request_time) ] ]
                /\ UNCHANGED << last_request_time, requests >>
           ELSE TaskSend(t, rec)
    /\ waited' = 0
    /\ UNCHANGED now
    /\ CallerIdle

\* asyncio.sleep(sleep_time) is over: the task goes on without a second check
TaskWake(t) ==
    /\ tasks[t].pc = "sleep"
    /\ now >= tasks[t].wake
    /\ TaskSend(t, tasks[t])
    /\ UNCHANGED << now, waited >>
    /\ CallerIdle

\* the response or the error arrives and the call returns
TaskResponse(t) ==
    /\ tasks[t].pc = "wait"
    /\ tasks' = [ tasks EXCEPT ![t].pc = "idle" ]
    /\ waited' = 0
    /\ UNCHANGED << now, last_request_time, requests >>
    /\ CallerIdle

AllIdle == \A t \in Tasks : tasks[t].pc = "idle"

\* a second passes for every task: none oversleeps or awaits beyond MaxLag,
\* and the client is left unused for MaxIdle at most
TaskTick ==
    /\ now < MaxTime
    /\ \A t \in Tasks :
          /\ tasks[t].pc = "sleep" => now < tasks[t].wake + MaxLag
          /\ tasks[t].pc = "wait" => tasks[t].lag < MaxLag
    /\ AllIdle =>
          /\ waited < MaxIdle
          /\ \E t \in Tasks : tasks[t].calls > 0
          /\ \E t \in Tasks : tasks[t].calls < MaxCalls
    /\ now' = now + 1
    /\ waited' = IF AllIdle THEN waited + 1 ELSE 0
    /\ tasks' = [ t \in Tasks |->
                    IF tasks[t].pc = "wait" THEN [ tasks[t] EXCEPT !.lag = @ + 1 ]
                    ELSE tasks[t] ]
    /\ UNCHANGED << last_request_time, requests >>
    /\ CallerIdle

TasksNext ==
    \/ \E t \in Tasks : TaskCall(t)
    \/ \E t \in Tasks : TaskWake(t)
    \/ \E t \in Tasks : TaskResponse(t)
    \/ TaskTick

TasksSpec == Init /\ [][TasksNext]_vars

(* ---------------- get_session and PaperRepository.upsert ---------------- *)
\* the client is not involved
ClientIdle ==
    UNCHANGED << now, last_request_time, files, pc, op, wake, waited, attempt, cur,
                 result, requests, outcomes, last_xml, calls, tasks >>

\* the server-assigned id of a new row
NewId(tbl) == Cardinality(tbl) + 1

\* session.query(Paper).filter(Paper.arxiv_id == arxiv_id).first()
GetByArxivId(tbl, arxiv_id) ==
    LET rows == { r \in tbl : r.arxiv_id = arxiv_id }
    IN  IF rows = { } THEN << >>
        ELSE << CHOOSE r \in rows : \A q \in rows : r.id <= q.id >>

\* slip: the loop over the fields is left out
MergedKeep(existing, paper) == existing
\* for key, value in paper_create.model_dump().items(): setattr(existing, key, value)
Merged(existing, paper) ==
    [ existing EXCEPT !.arxiv_id = paper.arxiv_id, !.title = paper.title ]

\* slip: no constraint on the column
UniqueViolationOff(tbl, row) == FALSE
\* the unique constraint on papers.arxiv_id refuses the row at commit
UniqueViolation(tbl, row) == \E r \in tbl : r.arxiv_id = row.arxiv_id

\* slip: the except clause is left out
ScopeExitNoRollback(exc) == << "close" >>
\* what get_session calls on the session when the scope is left: nothing more
\* on normal exit, session.rollback() in except Exception, session.close()
\* in finally
ScopeExit(exc) ==
    IF exc # "" /\ IsA(exc, "Exception") THEN << "rollback", "close" >>
    ELSE << "close" >>

\* failures of the code inside the scope other than the repository's
BodyErrors == { "ValueError" }

\* PostgreSQLDataBase.startup: sessionmaker(bind=self.engine)
Startup ==
    /\ ~session_factory
    /\ session_factory' = TRUE
    /\ UNCHANGED << table, sess, upserted >>
    /\ ClientIdle

\* with database.get_session() as session: up to the yield
GetSession(s) ==
    /\ sess[s].pc = "none"
    /\ sess' = [ sess EXCEPT ![s] =
                    IF session_factory
                    THEN [ @ EXCEPT !.pc = "scope", !.events = << "open" >> ]
                    ELSE [ @ EXCEPT !.pc = "exited", !.raised = "RuntimeError" ] ]
    /\ UNCHANGED << session_factory, table, upserted >>
    /\ ClientIdle

\* upsert(paper_create): existing_paper = self.get_by_arxiv_id(...)
UpsertLookup(s) ==
    /\ sess[s].pc = "scope"
    /\ sess[s].upserts < MaxUpserts
    /\ \E paper \in PaperCreates :
          /\ sess' = [ sess EXCEPT ![s] =
                          [ @ EXCEPT !.pc = "upsert", !.upserts = @ + 1,
                                     !.paper = << paper >>,
                                     !.existing = GetByArxivId(table, paper.arxiv_id) ] ]
          /\ upserted' = [ upserted EXCEPT ![paper.arxiv_id] = << paper.title >> ]
    /\ UNCHANGED << session_factory, table >>
    /\ ClientIdle

\* the rest of upsert: update(existing_paper) or create(paper_create), each
\* add, commit, refresh
UpsertCommit(s) ==
    /\ sess[s].pc = "upsert"
    /\ LET paper == sess[s].paper[1]
           existing == sess[s].existing
           row == [ id |-> NewId(table), arxiv_id |-> paper.arxiv_id,
                    title |-> paper.title ]
       IN  IF existing # << >>
           THEN /\ table' = { IF r.id = existing[1].id THEN Merged(existing[1], paper)
                              ELSE r : r \in table }
                /\ sess' = [ sess EXCEPT ![s].pc = "scope" ]
           ELSE IF UniqueViolation(table, row)
           THEN /\ sess' = [ sess EXCEPT ![s] =
                                [ @ EXCEPT !.pc = "failing", !.exc = "IntegrityError" ] ]
                /\ UNCHANGED table
           ELSE /\ table' = table \cup { row }
                /\ sess' = [ sess EXCEPT ![s].pc = "scope" ]
    /\ UNCHANGED << session_factory, upserted >>
    /\ ClientIdle

\* the code inside the scope raises
BodyRaises(s) ==
    /\ sess[s].pc = "scope"
    /\ \E exc \in BodyErrors :
          sess' = [ sess EXCEPT ![s] = [ @ EXCEPT !.pc = "failing", !.exc = exc ] ]
    /\ UNCHANGED << session_factory, table, upserted >>
    /\ ClientIdle

\* the scope is left normally: finally
ExitNormal(s) ==
    /\ sess[s].pc = "scope"
    /\ sess' = [ sess EXCEPT ![s] =
                    [ @ EXCEPT !.pc = "exited", !.events = @ \o ScopeExit("") ] ]
    /\ UNCHANGED << session_factory, table, upserted >>
    /\ ClientIdle

\* the scope is left by an exception: except Exception, raise, finally
ExitException(s) ==
    /\ sess[s].pc = "failing"
    /\ sess' = [ sess EXCEPT ![s] =
                    [ @ EXCEPT !.pc = "exited", !.events = @ \o ScopeExit(sess[s].exc),
                               !.raised = sess[s].exc ] ]
    /\ UNCHANGED << session_factory, table, upserted >>
    /\ ClientIdle

SessionStep(s) ==
    \/ GetSession(s)
    \/ UpsertLookup(s)
    \/ UpsertCommit(s)
    \/ BodyRaises(s)
    \/ ExitNormal(s)
    \/ ExitException(s)

\* one unit of work, with its own session
OneSessionNext == Startup \/ SessionStep(1)
OneSessionSpec == Init /\ [][OneSessionNext]_vars

\* concurrent units of work, each with its own session
SessionsNext == Startup \/ \E s \in Sessions : SessionStep(s)
SessionsSpec == Init /\ [][SessionsNext]_vars

(* ------------------------------ claims --------------------------------- *)
Last(seq) == seq[Len(seq)]
IsIdle(o) == pc = "idle" /\ op = o /\ calls > 0

\* C1: two fetch calls (fetch_papers or fetch_papers_with_query) made one after
\* the other start their HTTP GETs at least rate_limit_delay (3 s) apart,
\* whatever the outcome of the first.
C1_FetchGap ==
    \A i, j \in 1..Len(requests) :
        (i < j /\ requests[i].op \in FetchOps /\ requests[j].op \in FetchOps)
            => requests[j].t - requests[i].t >= 3

\* the second fetch was held back and went out exactly 3 s after the first
C1_Witness ==
    /\ Len(requests) = 2
    /\ requests[1].op \in FetchOps
    /\ requests[2].op \in FetchOps
    /\ requests[2].t - requests[1].t = 3
    /\ calls = 2
    /\ pc = "f_wait"
    /\ waited = 0

\* C2: every outgoing request (fetch, fetch_paper_by_id, PDF download) updates
\* the tracked last-request time and starts at least rate_limit_delay after
\* the previous outgoing request.
C2_EveryRequestLimited ==
    /\ (requests # << >> /\ waited = 0 /\ pc \in { "f_wait", "id_wait", "dl_wait" })
           => last_request_time = Last(requests).t
    /\ Len(requests) = 2 => requests[2].t - requests[1].t >= 3

\* C3: download_pdf called again for the same paper with force_download
\* false, after a first download into an empty cache succeeded, returns the
\* same path at once without any request: the one transfer of the first call
\* is the only one.
C3_SecondDownloadCached ==
    [][ ( /\ IsIdle("download_pdf")
          /\ result.kind = "path"
          /\ outcomes # << >>
          /\ calls' = calls + 1
          /\ op' = "download_pdf"
          /\ cur'.paper = cur.paper
          /\ ~cur'.force )
        => ( /\ pc' = "idle"
             /\ result' = result
             /\ requests' = requests
             /\ outcomes' = << >>
             /\ files' = files
             /\ Cardinality({ i \in 1..Len(outcomes) : outcomes[i] = "ok" }) = 1 ) ]_vars

\* two calls, one request: the second call returned the cached path
C3_Witness ==
    /\ IsIdle("download_pdf")
    /\ calls = 2
    /\ ~cur.force
    /\ cur.paper.pdf_url # << >>
    /\ result = Return("path", cur.path)
    /\ outcomes = << >>
    /\ Len(requests) = 1
    /\ requests[1].op = "download_pdf"
    /\ files[cur.path] = "complete"

\* C4: a download whose first two attempts fail by timeout or HTTP-level error
\* and whose third succeeds returns the path after exactly 3 attempts; a
\* download_pdf call never makes more than 3 attempts, and after the third it
\* has returned or raised.
C4_BoundedAttempts ==
    op = "download_pdf" =>
        /\ Len(outcomes) + (IF pc = "dl_wait" THEN 1 ELSE 0) <= 3
        /\ Len(outcomes) = 3 =>
               /\ pc = "idle"
               /\ result.kind \in { "path", "raise" }
        /\ ( /\ Len(outcomes) >= 2
             /\ outcomes[1] \in HTTPErrors
             /\ outcomes[2] \in HTTPErrors )
           => \/ pc \in { "dl_backoff", "dl_wait" } /\ Len(outcomes) = 2
              \/ pc = "idle" /\ Len(outcomes) = 3
        /\ ( /\ Len(outcomes) = 3
             /\ outcomes[3] = "ok" )
           => result = Return("path", cur.path)

\* timeout, HTTP error, success: the path is returned after the third attempt
C4_Witness ==
    /\ IsIdle("download_pdf")
    /\ outcomes = << "TimeoutException", "HTTPStatusError", "ok" >>
    /\ result = Return("path", cur.path)
    /\ attempt = 2

\* C5: when all 3 attempts of a download fail by timeout or HTTP-level error,
\* the call raises a download failure and no file is left at the cache path.
C5_NoFileAfterExhaustion ==
    ( /\ IsIdle("download_pdf")
      /\ Len(outcomes) = 3
      /\ \A i \in 1..3 : outcomes[i] \in HTTPErrors )
    => /\ result.kind = "raise"
       /\ files[cur.path] = "absent"

\* C6: the failure raised on exhaustion follows the error of the third
\* attempt (timeout: PDFDownloadTimeoutError, other HTTP-level error:
\* PDFDownloadException); a timeout or HTTP error on attempt 1 or 2 raises
\* nothing.
C6_FailureKind ==
    ( /\ op = "download_pdf"
      /\ outcomes # << >>
      /\ Last(outcomes) \in HTTPErrors )
    => IF Len(outcomes) < 3
       THEN result.kind = "pending" /\ pc \in { "dl_backoff", "dl_wait" }
       ELSE /\ pc = "idle"
            /\ result = Raise(IF Last(outcomes) = "TimeoutException"
                              THEN "PDFDownloadTimeoutError"
                              ELSE "PDFDownloadException")

\* two HTTP errors, then a timeout on the last attempt
C6_Witness ==
    /\ IsIdle("download_pdf")
    /\ outcomes = << "HTTPStatusError", "ReadError", "TimeoutException" >>
    /\ result = Raise("PDFDownloadTimeoutError")

\* the record _parse_single_entry builds for an entry that has an id
HasId(entry) ==
    /\ entry.id.elem
    /\ entry.id.hastext
    /\ LastSegment(entry.id.text) # << >>

\* C7: a fetch whose GET succeeds with a well-formed feed of N entries that
\* each have an id returns the N parsed records in feed order.
C7_FetchReturnsParsed ==
    ( /\ pc = "idle"
      /\ op \in FetchOps
      /\ outcomes = << "ok" >>
      /\ last_xml.wellformed
      /\ \A i \in 1..Len(last_xml.entries) : HasId(last_xml.entries[i]) )
    => result = Return("list",
                       [ i \in 1..Len(last_xml.entries) |->
                           [ arxiv_id |-> LastSegment(last_xml.entries[i].id.text),
                             pdf_url |-> << >> ] ])

\* C8: on a request timeout or an HTTP error status, fetch_papers and
\* fetch_papers_with_query return an empty sequence and fetch_paper_by_id
\* returns none-found; none of them raises.
C8_FetchErrorsSwallowed ==
    ( /\ pc = "idle"
      /\ outcomes # << >>
      /\ Last(outcomes) \in { "TimeoutException", "HTTPStatusError" } )
    => /\ op \in FetchOps => result = Return("list", << >>)
       /\ op = "fetch_paper_by_id" => result = Return("none", << >>)

\* fetch_papers_with_query timed out and returned []
C8_Witness ==
    /\ IsIdle("fetch_papers_with_query")
    /\ outcomes = << "TimeoutException" >>
    /\ result = Return("list", << >>)

\* C9: _parse_response on a malformed document raises ArxivParseError; it
\* returns no list, empty or partial.
C9_MalformedRaises ==
    ( /\ IsIdle("_parse_response")
      /\ ~last_xml.wellformed )
    => result = Raise("ArxivParseError")

\* a document damaged after two entries with ids
C9_Witness ==
    /\ IsIdle("_parse_response")
    /\ ~last_xml.wellformed
    /\ Len(last_xml.entries) = 2
    /\ \A i \in 1..2 : HasId(last_xml.entries[i])
    /\ result = Raise("ArxivParseError")

\* C10: when the API answers a fetch operation with a successful response
\* whose body is malformed XML, the parse error reaches the caller of the
\* fetch operation.
C10_ParseErrorPropagates ==
    ( /\ pc = "idle"
      /\ op \in FetchOps \cup { "fetch_paper_by_id" }
      /\ outcomes = << "ok" >>
      /\ ~last_xml.wellformed )
    => result = Raise("ArxivParseError")

\* C11: for a well-formed feed the parser returns exactly the records of the
\* entries that have an id and parse without error, in feed order; an entry
\* without id element or id text, or whose parsing raises, is left out and
\* the entries around it are still returned.
C11_SubsequenceOfGoodEntries ==
    ( /\ IsIdle("_parse_response")
      /\ last_xml.wellformed )
    => LET kept == SelectSeq(last_xml.entries,
                             LAMBDA e : HasId(e) /\ ~e.raises)
       IN  result = Return("list",
                           [ i \in 1..Len(kept) |->
                               [ arxiv_id |-> LastSegment(kept[i].id.text),
                                 pdf_url |-> << >> ] ])

\* an entry without id element, then one whose parsing raises, then a good one
C11_Witness ==
    /\ IsIdle("_parse_response")
    /\ last_xml.wellformed
    /\ Len(last_xml.entries) = 3
    /\ ~last_xml.entries[1].id.elem
    /\ HasId(last_xml.entries[2]) /\ last_xml.entries[2].raises
    /\ HasId(last_xml.entries[3]) /\ ~last_xml.entries[3].raises
    /\ Len(result.val) = 1
    /\ result.val[1].arxiv_id = LastSegment(last_xml.entries[3].id.text)

C16_BackoffWaits ==
    [][ /\ (pc = "dl_backoff" /\ pc' # "dl_backoff")
           => /\ pc' = "dl_wait"
              /\ attempt' = attempt + 1
              /\ attempt' \in { 1, 2 }
              /\ wake = (now - waited) + 5 * attempt'
              /\ waited >= 5 * attempt'
        /\ (pc' = "dl_backoff" /\ pc # "dl_backoff")
           => /\ pc = "dl_wait"
              /\ attempt \in { 0, 1 }
              /\ Last(outcomes') \in HTTPErrors
              /\ now' = now
        /\ (pc = "dl_wait" /\ attempt = 2 /\ pc' # "dl_wait")
           => pc' = "idle" /\ now' = now
        /\ (pc' = "dl_sleep" /\ pc # "dl_sleep")
           => pc = "idle" /\ calls' = calls + 1
        /\ (pc = "dl_sleep" /\ pc' # "dl_sleep")
           => /\ pc' = "dl_wait"
              /\ attempt' = 0
              /\ outcomes = << >>
              /\ wake = (now - waited) + 3
              /\ waited >= 3
        /\ (pc' = "dl_wait" /\ pc # "dl_wait")
           => pc \in { "dl_sleep", "dl_backoff" } ]_vars

\* the third attempt starts 10 s after the second, which failed at once
C16_Witness ==
    /\ op = "download_pdf"
    /\ pc = "dl_wait"
    /\ attempt = 2
    /\ waited = 0
    /\ Len(outcomes) = 2
    /\ Len(requests) = 2
    /\ requests[2].t - requests[1].t = 10

\* C18: a path returned by download_pdf refers to a completely downloaded
\* file, whatever downloads, failures and force flags came before.
C18_ReturnedPathComplete ==
    ( /\ IsIdle("download_pdf")
      /\ result.kind = "path" )
    => files[cur.path] = "complete"

\* C19: an error of a download attempt that is neither a timeout nor an
\* HTTP-level error ends the call on that attempt with PDFDownloadException:
\* no backoff, no further request.
C19_OtherErrorNotRetried ==
    op = "download_pdf" =>
        \A i \in 1..Len(outcomes) :
            outcomes[i] = "OSError"
                => /\ i = Len(outcomes)
                   /\ attempt = i - 1
                   /\ pc = "idle"
                   /\ result = Raise("PDFDownloadException")

\* a write failure on the second attempt
C19_Witness ==
    /\ IsIdle("download_pdf")
    /\ outcomes = << "TimeoutException", "OSError" >>
    /\ attempt = 1
    /\ result = Raise("PDFDownloadException")

\* C12: after any sequence of upsert calls through one session the table
\* holds exactly one row for each arxiv_id upserted, with the title of the most
\* recent upsert for that id.
C12_UpsertOneRowLatestTitle ==
    sess[1].pc # "upsert" =>
        \A a \in ArxivIds :
            LET rows == { r \in table : r.arxiv_id = a }
            IN  IF upserted[a] = << >> THEN rows = { }
                ELSE /\ Cardinality(rows) = 1
                     /\ \A r \in rows : r.title = upserted[a][1]

\* two upserts of one arxiv_id, the titles t1 then t2: one row, titled t2
C12_Witness ==
    /\ sess[1].pc = "scope"
    /\ sess[1].upserts = 2
    /\ sess[1].existing # << >>
    /\ sess[1].existing[1].title = "t1"
    /\ sess[1].paper[1].title = "t2"
    /\ table = { [ id |-> 1, arxiv_id |-> sess[1].paper[1].arxiv_id, title |-> "t2" ] }

\* C13: a session obtained from get_session is closed exactly once when its
\* scope is left; after an exception it is rolled back first and the caller
\* gets that exception; after a normal exit it is not rolled back.
C13_SessionReleased ==
    \A s \in Sessions :
        /\ sess[s].pc \in { "scope", "upsert", "failing" } => sess[s].events = << "open" >>
        /\ (sess[s].pc = "exited" /\ sess[s].events # << >>) =>
              IF sess[s].exc = ""
              THEN sess[s].events = << "open", "close" >> /\ sess[s].raised = ""
              ELSE /\ sess[s].events = << "open", "rollback", "close" >>
                   /\ sess[s].raised = sess[s].exc

\* one scope left normally, the other by the IntegrityError of its upsert
C13_Witness ==
    \E s, u \in Sessions :
        /\ sess[s].pc = "exited"
        /\ sess[s].events = << "open", "close" >>
        /\ sess[u].pc = "exited"
        /\ sess[u].exc = "IntegrityError"
        /\ sess[u].events = << "open", "rollback", "close" >>

\* C15: two tasks that call fetch_papers on one client and sleep on the same
\* read of the last-request time wake at the same moment, and their requests
\* start less than rate_limit_delay apart.
C15_StaleReadRace ==
    \A a, b \in Tasks :
        ( /\ a # b
          /\ tasks[a].slept /\ tasks[b].slept
          /\ tasks[a].pc \in { "sleep", "wait" } /\ tasks[b].pc \in { "sleep", "wait" }
          /\ tasks[a].seen = tasks[b].seen )
        => /\ tasks[a].wake = tasks[a].seen + 3
           /\ tasks[b].wake = tasks[a].wake
           /\ (tasks[a].pc = "wait" /\ tasks[b].pc = "wait")
                 => /\ Len(requests) = 2
                    /\ requests[2].t - requests[1].t < 3

\* both tasks read the same last-request time at the same moment, slept for
\* the same remainder and started their requests at the same time
C15_Witness ==
    /\ tasks[1].pc = "wait" /\ tasks[2].pc = "wait"
    /\ tasks[1].slept /\ tasks[2].slept
    /\ tasks[1].seen # NONE
    /\ tasks[1].seen = tasks[2].seen
    /\ tasks[1].sleep_time = tasks[2].sleep_time
    /\ tasks[1].sleep_time > 0
    /\ Len(requests) = 2
    /\ requests[2].t = requests[1].t

\* C17: when two sessions upsert the same arxiv_id, not stored when each looks
\* it up, the table holds exactly one row for it once both calls are over; at
\* no time does it hold two rows for one arxiv_id.
C17_OneRowUnderInterleaving ==
    /\ \A a \in ArxivIds : Cardinality({ r \in table : r.arxiv_id = a }) <= 1
    /\ ( /\ \A s \in Sessions :
               /\ sess[s].upserts > 0
               /\ sess[s].pc # "upsert"
               /\ sess[s].existing = << >>
         /\ sess[1].paper[1].arxiv_id = sess[2].paper[1].arxiv_id )
       => Cardinality({ r \in table : r.arxiv_id = sess[1].paper[1].arxiv_id }) = 1

\* both sessions found nothing; the second commit was refused
C17_Witness ==
    /\ \A s \in Sessions : sess[s].upserts = 1 /\ sess[s].existing = << >>
    /\ sess[1].paper[1].arxiv_id = sess[2].paper[1].arxiv_id
    /\ sess[1].paper[1].title # sess[2].paper[1].title
    /\ sess[1].pc = "scope"
    /\ sess[2].exc = "IntegrityError"
    /\ Cardinality(table) = 1

====
